---------------------------- MODULE Spec2Model ----------------------------
(***************************************************************************)
(* Model of the Berlin Bus Guide builder front end: the legacy map editor  *)
(* script (App.tsx lines 314-781), the React application (App.tsx lines    *)
(* 1-222), the CircleManager form and the ArticleDetail panel.             *)
(*                                                                         *)
(* JavaScript numbers are IEEE-754 binary floating point.  They are        *)
(* modelled by binary floating-point numbers with a MantissaBits-bit       *)
(* mantissa and an unbounded exponent: every arithmetic operation rounds   *)
(* its exact result to the nearest representable number, ties to even, as  *)
(* IEEE-754 does, so that rounding (and what it does to the haversine      *)
(* formula) is part of the model.  A number is a record [s, m, e] of value *)
(* s * m * 2^e with s in {1, -1} and m = 0 or 2^(MantissaBits-1) <= m <    *)
(* 2^MantissaBits; NaN is the record with s = 0.                           *)
(***************************************************************************)
EXTENDS Integers, Sequences, FiniteSets, TLC

\* Bits of mantissa of the modelled floating-point numbers (53 in IEEE double).
MantissaBits == 12

\* Number of terms of the power series that approximate Math.sin and Math.cos.
SeriesTerms == 8

NaN == [s |-> 0, m |-> 0, e |-> 0]

Zero == [s |-> 1, m |-> 0, e |-> 0]

IsNaN(x) == x.s = 0

IsZero(x) == x.s # 0 /\ x.m = 0

\* The single element of a one-element set: { F(v) : v \in {e} } computes e
\* once and hands its value to F.
ValueOf(S) == CHOOSE v \in S : TRUE

RECURSIVE BitLen(_)
BitLen(m) == IF m = 0 THEN 0 ELSE 1 + BitLen(m \div 2)

\* m of b > MantissaBits bits, rounded to MantissaBits bits (ties to even).
RoundBits(s, m, e, b) ==
    ValueOf({ IF up = 2^MantissaBits
              THEN [s |-> s, m |-> 2^(MantissaBits - 1), e |-> e + (b - MantissaBits) + 1]
              ELSE [s |-> s, m |-> up, e |-> e + (b - MantissaBits)] :
              up \in { LET k    == b - MantissaBits
                           q    == m \div 2^k
                           r    == m % 2^k
                           half == 2^(k - 1)
                       IN  IF r > half \/ (r = half /\ q % 2 = 1) THEN q + 1 ELSE q } })

\* The floating-point number nearest to s * m * 2^e (round to nearest, ties to even).
Round(s, m, e) ==
    IF m = 0 THEN Zero
    ELSE ValueOf({ IF b <= MantissaBits
                   THEN [s |-> s, m |-> m * 2^(MantissaBits - b),
                         e |-> e - (MantissaBits - b)]
                   ELSE RoundBits(s, m, e, b) : b \in {BitLen(m)} })

\* The number literal n (an integer).
Num(n) == Round(IF n >= 0 THEN 1 ELSE -1, IF n >= 0 THEN n ELSE -n, 0)

\* The number literal n / 2^k.
Frac(n, k) == Round(IF n >= 0 THEN 1 ELSE -1, IF n >= 0 THEN n ELSE -n, -k)

\* -x
FNeg(x) ==
    ValueOf({ IF IsNaN(a) \/ IsZero(a) THEN a ELSE [a EXCEPT !.s = -a.s] : a \in {x} })

\* x * y
FMul(x, y) ==
    ValueOf({ IF IsNaN(a) \/ IsNaN(b) THEN NaN
              ELSE Round(a.s * b.s, a.m * b.m, a.e + b.e) : a \in {x}, b \in {y} })

\* hi + lo for numbers that are not zero, hi.e >= lo.e
AddOrdered(hi, lo) ==
    IF hi.e - lo.e > MantissaBits + 1 THEN hi
    ELSE ValueOf({ Round(IF sum >= 0 THEN 1 ELSE -1,
                         IF sum >= 0 THEN sum ELSE -sum, lo.e) :
                   sum \in { hi.s * hi.m * 2^(hi.e - lo.e) + lo.s * lo.m } })

\* x + y
FAdd(x, y) ==
    ValueOf({ IF IsNaN(a) \/ IsNaN(b) THEN NaN
              ELSE IF IsZero(a) THEN b
              ELSE IF IsZero(b) THEN a
              ELSE IF a.e >= b.e THEN AddOrdered(a, b) ELSE AddOrdered(b, a) :
              a \in {x}, b \in {y} })

\* x - y
FSub(x, y) == FAdd(x, FNeg(y))

\* x / y (the program never divides by zero)
FDiv(x, y) ==
    ValueOf({ IF IsNaN(a) \/ IsNaN(b) \/ IsZero(b) THEN NaN
              ELSE IF IsZero(a) THEN Zero
              ELSE ValueOf({ Round(a.s * b.s,
                                   2 * (n \div b.m) + (IF n % b.m > 0 THEN 1 ELSE 0),
                                   a.e - b.e - (MantissaBits + 3)) :
                             n \in { a.m * 2^(MantissaBits + 2) } }) :
              a \in {x}, b \in {y} })

\* The largest r in lo..hi with r * r <= n.
RECURSIVE ISqrt(_, _, _)
ISqrt(n, lo, hi) ==
    IF lo = hi THEN lo
    ELSE ValueOf({ IF mid * mid <= n THEN ISqrt(n, mid, hi) ELSE ISqrt(n, lo, mid - 1) :
                   mid \in { (lo + hi + 1) \div 2 } })

\* Math.sqrt: NaN for a negative argument.
FSqrt(x) ==
    ValueOf({ IF IsNaN(a) THEN NaN
              ELSE IF IsZero(a) THEN Zero
              ELSE IF a.s < 0 THEN NaN
              ELSE ValueOf({ ValueOf({ Round(1, 2 * r + (IF r * r < a.m * 2^k THEN 1 ELSE 0),
                                             ((a.e - k) \div 2) - 1) :
                                       r \in { ISqrt(a.m * 2^k, 0, 46340) } }) :
                             k \in { IF (a.e - (MantissaBits + 2)) % 2 = 0
                                     THEN MantissaBits + 2 ELSE MantissaBits + 3 } }) :
              a \in {x} })

\* x < y, x <= y and x > y of JavaScript: false when either side is NaN.
FLt(x, y) == ValueOf({ ~IsNaN(d) /\ ~IsZero(d) /\ d.s < 0 : d \in {FSub(x, y)} })

FLe(x, y) == ValueOf({ ~IsNaN(d) /\ (IsZero(d) \/ d.s < 0) : d \in {FSub(x, y)} })

FGt(x, y) == FLt(y, x)

One == Num(1)

Two == Num(2)

\* Math.PI: the floating-point number nearest to pi (843314857 / 2^28).
MathPI == Round(1, 843314857, -28)

\* 1 - x2/c1 * (1 - x2/c2 * (...)): the nested form of the sine series
\* (odd: ck = 2k(2k+1)) and of the cosine series (ck = (2k-1)2k), evaluated
\* from the innermost factor outwards; acc is the value of factors k+1, k+2, ...
RECURSIVE Series(_, _, _, _)
Series(x2, k, odd, acc) ==
    IF k = 0 THEN acc
    ELSE ValueOf({ IF IsNaN(next) THEN NaN ELSE Series(x2, j, odd, next) :
                   j \in {k - 1},
                   next \in { FSub(One, FDiv(FMul(x2, acc),
                                Num(IF odd THEN (2 * k) * (2 * k + 1)
                                    ELSE (2 * k - 1) * (2 * k)))) } })

\* A result of Math.sin or Math.cos lies in [-1, 1].
Clamp(x) ==
    ValueOf({ IF IsNaN(a) THEN NaN
              ELSE IF FGt(a, One) THEN One
              ELSE IF FLt(a, FNeg(One)) THEN FNeg(One)
              ELSE a : a \in {x} })

\* Math.sin, for |x| <= pi: an odd function, sin(0) = 0.
MathSin(x) ==
    ValueOf({ IF IsNaN(a) THEN NaN
              ELSE Clamp(FMul(a, Series(FMul(a, a), SeriesTerms, TRUE, One))) : a \in {x} })

\* Math.cos, for |x| <= pi: an even function, cos(0) = 1.
MathCos(x) ==
    ValueOf({ IF IsNaN(a) THEN NaN
              ELSE Clamp(Series(FMul(a, a), SeriesTerms, FALSE, One)) : a \in {x} })

\* atan(t) = 2 atan(t / (1 + sqrt(1 + t^2)))
HalfAngle(t) ==
    ValueOf({ FDiv(a, FAdd(One, FSqrt(FAdd(One, FMul(a, a))))) : a \in {t} })

\* 1/(2k+1) - u2 * (1/(2k+3) - u2 * (...)): the nested arctangent series,
\* evaluated from the innermost term outwards.
RECURSIVE AtanSeries(_, _, _)
AtanSeries(u2, k, acc) ==
    ValueOf({ IF IsNaN(next) THEN NaN
              ELSE IF k = 0 THEN next
              ELSE AtanSeries(u2, j, next) :
              j \in {k - 1},
              next \in { FSub(FDiv(One, Num(2 * k + 1)), FMul(u2, acc)) } })

\* The arctangent of t, 0 <= t <= 1.
Atan(t) ==
    ValueOf({ IF IsNaN(u) THEN NaN
              ELSE ValueOf({ FMul(Num(4), FMul(u, AtanSeries(u2, 4, Zero))) :
                             u2 \in {FMul(u, u)} }) :
              u \in {HalfAngle(HalfAngle(t))} })

\* Math.atan2(y, x) for y >= 0 and x >= 0, the arguments the haversine
\* formula passes (two square roots); NaN when either is NaN.
MathAtan2(y, x) ==
    ValueOf({ IF IsNaN(b) \/ IsNaN(a) THEN NaN
              ELSE IF IsZero(b) THEN Zero
              ELSE IF IsZero(a) THEN FDiv(MathPI, Two)
              ELSE IF FLe(b, a) THEN Atan(FDiv(b, a))
              ELSE FSub(FDiv(MathPI, Two), Atan(FDiv(a, b))) :
              b \in {y}, a \in {x} })

-----------------------------------------------------------------------------
\* The two haversine implementations.

\* const R = 6371000 (both implementations)
EarthRadius == 6371000

\* calculateDistance with the latitude difference taken as a sum.
calculateDistanceSum(lat1, lon1, lat2, lon2) ==
    LET R      == Num(EarthRadius)
        phi1   == FDiv(FMul(lat1, MathPI), Num(180))
        phi2   == FDiv(FMul(lat2, MathPI), Num(180))
        dphi   == FDiv(FMul(FAdd(lat2, lat1), MathPI), Num(180))
        dlam   == FDiv(FMul(FSub(lon2, lon1), MathPI), Num(180))
        a      == FAdd(FMul(MathSin(FDiv(dphi, Two)), MathSin(FDiv(dphi, Two))),
                       FMul(FMul(FMul(MathCos(phi1), MathCos(phi2)),
                                 MathSin(FDiv(dlam, Two))),
                            MathSin(FDiv(dlam, Two))))
        c(av)  == FMul(Two, MathAtan2(FSqrt(av), FSqrt(FSub(One, av))))
    IN  ValueOf({ FMul(R, c(av)) : av \in {a} })

\* App.tsx calculateDistance(lat1, lon1, lat2, lon2)
calculateDistance(lat1, lon1, lat2, lon2) ==
    LET R      == Num(EarthRadius)
        phi1   == FDiv(FMul(lat1, MathPI), Num(180))
        phi2   == FDiv(FMul(lat2, MathPI), Num(180))
        dphi   == FDiv(FMul(FSub(lat2, lat1), MathPI), Num(180))
        dlam   == FDiv(FMul(FSub(lon2, lon1), MathPI), Num(180))
        a      == FAdd(FMul(MathSin(FDiv(dphi, Two)), MathSin(FDiv(dphi, Two))),
                       FMul(FMul(FMul(MathCos(phi1), MathCos(phi2)),
                                 MathSin(FDiv(dlam, Two))),
                            MathSin(FDiv(dlam, Two))))
        c(av)  == FMul(Two, MathAtan2(FSqrt(av), FSqrt(FSub(One, av))))
    IN  ValueOf({ FMul(R, c(av)) : av \in {a} })

\* ArticleDetail deg2rad(deg)
deg2rad(deg) == FMul(deg, FDiv(MathPI, Num(180)))

\* ArticleDetail getDistanceFromLatLonInM(lat1, lon1, lat2, lon2)
getDistanceFromLatLonInM(lat1, lon1, lat2, lon2) ==
    LET R    == Num(EarthRadius)
        dLat == deg2rad(FSub(lat2, lat1))
        dLon == deg2rad(FSub(lon2, lon1))
        a    == FAdd(FMul(MathSin(FDiv(dLat, Two)), MathSin(FDiv(dLat, Two))),
                     FMul(FMul(FMul(MathCos(deg2rad(lat1)), MathCos(deg2rad(lat2))),
                               MathSin(FDiv(dLon, Two))),
                          MathSin(FDiv(dLon, Two))))
        c(av) == FMul(Two, MathAtan2(FSqrt(av), FSqrt(FSub(One, av))))
        d(av) == FMul(R, c(av))
    IN  ValueOf({ d(av) : av \in {a} })

-----------------------------------------------------------------------------
\* The data the model runs on.

\* null / undefined
Null == [null |-> TRUE]

\* null where a circle id (a string) is expected: like null it is falsy and
\* is the id of no circle.
NoId == ""

\* GeoPoints <<lat, lon>> in decimal degrees.
Berlin == <<Frac(105, 1), Frac(3456, 8)>>

\* 2/256 degree (about 529 m) east and west of Berlin, and 8/256 degree east.
East529 == <<Frac(105, 1), Frac(3458, 8)>>

West529 == <<Frac(105, 1), Frac(3454, 8)>>

East2116 == <<Frac(105, 1), Frac(3464, 8)>>

Paris == <<Frac(391, 3), Frac(19, 3)>>

\* A point and its antipode.
Gulf == <<Num(9), Num(0)>>

AntiGulf == <<Num(-9), Num(180)>>

Origin == <<Num(0), Num(0)>>

Points == {Berlin, East529, West529, East2116, Paris, Gulf, AntiGulf, Origin}

\* The values of calculateDistance and getDistanceFromLatLonInM on Points,
\* computed once: the set of <<p, q, distance>>.
calculateDistanceTable ==
    { <<p, q, calculateDistance(p[1], p[2], q[1], q[2])>> : p \in Points, q \in Points }

getDistanceTable ==
    { <<p, q, getDistanceFromLatLonInM(p[1], p[2], q[1], q[2])>> : p \in Points, q \in Points }

CalcDist(lat1, lon1, lat2, lon2) ==
    (CHOOSE t \in calculateDistanceTable :
        t[1] = <<lat1, lon1>> /\ t[2] = <<lat2, lon2>>)[3]

GetDist(lat1, lon1, lat2, lon2) ==
    (CHOOSE t \in getDistanceTable :
        t[1] = <<lat1, lon1>> /\ t[2] = <<lat2, lon2>>)[3]

\* interface Circle { id, name, center, radius, color, articles }
Circle(id, name, center, radius, articles) ==
    [id |-> id, name |-> name, center |-> center, radius |-> radius,
     color |-> "#95276E", articles |-> articles]

\* A radius equal to the distance ArticleDetail computes from East2116 to Berlin.
BoundaryRadius == GetDist(East2116[1], East2116[2], Berlin[1], Berlin[2])

\* The circles the backend may hold.
CircleUniverse ==
    { Circle("a", "Alex", Berlin, Num(200), <<>>),
      Circle("b", "", East529, Num(200), <<1>>),
      Circle("c", "Wide", East2116, Num(5000), <<>>),
      Circle("d", "Edge", East2116, BoundaryRadius, <<>>),
      Circle("e", "West", West529, Num(200), <<>>),
      Circle("f", "Paris", Paris, Num(200), <<2>>),
      Circle("g", "Anti", AntiGulf, Num(5000), <<>>),
      Circle("h", "Flat", Berlin, Num(0), <<>>),
      Circle("i", "Neg", East529, Num(-1), <<>>) }

\* A circle the backend holds without a name.
Nameless ==
    [id |-> "b", center |-> East529, radius |-> Num(200), color |-> "#95276E",
     articles |-> <<1>>]

\* interface Article { pageid, title, lat, lon, ... }
Article(pageid, title, p) == [pageid |-> pageid, title |-> title, lat |-> p[1], lon |-> p[2]]

ArticleUniverse ==
    { Article(1, "Fernsehturm", Berlin),
      Article(2, "Louvre", Paris),
      Article(3, "Buoy", Gulf),
      Article(4, "Kino", East529) }

\* The array GET /api/articles returns.
ArticleList ==
    [i \in 1..4 |-> CHOOSE a \in ArticleUniverse : a.pageid = i]

\* interface Route { id, ... }, and the array GET /api/routes returns.
RouteList == << [id |-> "100"], [id |-> "200"] >>

\* The longest circle list the backend returns.
MaxCircles == 3

RECURSIVE SeqsOver(_, _)
\* The sequences of at most n distinct elements of S.
SeqsOver(S, n) ==
    IF n = 0 THEN {<<>>}
    ELSE LET shorter == SeqsOver(S, n - 1)
         IN  shorter \cup
             { Append(q, x) : <<q, x>> \in
                 { <<q, x>> \in shorter \X S : \A i \in 1..Len(q) : q[i].id # x.id } }

CircleLists == SeqsOver(CircleUniverse, MaxCircles)

Range(q) == { q[i] : i \in 1..Len(q) }

-----------------------------------------------------------------------------
\* Array.prototype.filter is SelectSeq: a new array of the elements that
\* pass the test, in their order.

\* A comparator with the operands swapped: distB - distA.
compareDistanceReversed(lat, lon, a, b) ==
    FSub(CalcDist(lat, lon, b.center[1], b.center[2]),
         CalcDist(lat, lon, a.center[1], a.center[2]))

\* The comparator of findNearbyCircles: distA - distB.
compareDistance(lat, lon, a, b) ==
    LET distA == CalcDist(lat, lon, a.center[1], a.center[2])
        distB == CalcDist(lat, lon, b.center[1], b.center[2])
    IN  FSub(distA, distB)

\* The positions whose element x precedes in a sort that is not stable: an
\* element that compares equal is moved in front.
PrecededByOrEqual(q, x, lat, lon) ==
    { i \in 1..Len(q) : FLe(compareDistance(lat, lon, x, q[i]), Zero) }

\* The positions of the sorted array q whose element x precedes: the
\* comparator is negative (a NaN is not).
PrecededBy(q, x, lat, lon) ==
    { i \in 1..Len(q) : FLt(compareDistance(lat, lon, x, q[i]), Zero) }

\* x inserted into the sorted array q behind every element it does not
\* precede: elements that compare equal, or whose comparison is NaN, keep
\* their order.
InsertByDistance(q, x, lat, lon) ==
    ValueOf({ IF before = {} THEN Append(q, x)
              ELSE ValueOf({ SubSeq(q, 1, at - 1) \o <<x>> \o SubSeq(q, at, Len(q)) :
                             at \in { CHOOSE i \in before : \A j \in before : i <= j } }) :
              before \in { PrecededBy(q, x, lat, lon) } })

RECURSIVE sortByDistance(_, _, _)
\* Array.prototype.sort with the comparator of findNearbyCircles (a stable sort).
sortByDistance(a, lat, lon) ==
    IF a = <<>> THEN <<>>
    ELSE ValueOf({ InsertByDistance(sorted, a[Len(a)], lat, lon) :
                   sorted \in { sortByDistance(SubSeq(a, 1, Len(a) - 1), lat, lon) } })

\* The threshold of findNearbyCircles ("within 1000 meters").
NearbyThreshold == 1000

\* findNearbyCircles without the clause for the circles that contain the point.
findNearbyCirclesThresholdOnly(circles, lat, lon) ==
    LET Test(circle) ==
            FLe(CalcDist(lat, lon, circle.center[1], circle.center[2]), Num(NearbyThreshold))
    IN  ValueOf({ sortByDistance(filtered, lat, lon) :
                  filtered \in { SelectSeq(circles, Test) } })

\* App.tsx findNearbyCircles(lat, lon) on the global array circles.
findNearbyCirclesOf(circles, lat, lon) ==
    LET Test(circle) ==
            LET circleLat == circle.center[1]
                circleLon == circle.center[2]
            IN  ValueOf({ FLe(distance, Num(NearbyThreshold)) \/ FLe(distance, circle.radius) :
                          distance \in { CalcDist(lat, lon, circleLat, circleLon) } })
    IN  ValueOf({ sortByDistance(filtered, lat, lon) :
                  filtered \in { SelectSeq(circles, Test) } })

\* The filter of ArticleDetail with a strict comparison.
nearbyCirclesStrict(article, circles) ==
    LET Test(circle) ==
            FLt(GetDist(circle.center[1], circle.center[2], article.lat, article.lon),
                circle.radius)
    IN  SelectSeq(circles, Test)

\* ArticleDetail: const nearbyCircles = circles.filter(...)
nearbyCircles(article, circles) ==
    LET Test(circle) ==
            LET distance == GetDist(circle.center[1], circle.center[2],
                                    article.lat, article.lon)
            IN  FLe(distance, circle.radius)
    IN  SelectSeq(circles, Test)

-----------------------------------------------------------------------------
\* The state.

VARIABLES
    \* legacy editor script: its global variables
    allCircles, currentCircleId, circleData,
    currentArticleForAssignment, currentArticleLocation,
    \* legacy editor page: the 'circle-name' input and the circles listed in
    \* 'nearby-circles-list'
    nameInput, nearbyResult,
    \* the backend's stored circles, the requests in flight, Date.now()
    store, net, clock,
    \* React application state (App) and CircleManager's formValues
    circles, selectedCircle, selectedArticle, formValues,
    articles, routes, selectedRoute, routeData, loading, error,
    \* ArticleDetail's selectedCircleId, and the text of the last alert()
    selectedCircleId, alerted,
    \* calls of the pure functions: their arguments and what they returned
    measured,
    \* the number of actions the user of the editor page has taken
    userActions

legacyVars == <<allCircles, currentCircleId, circleData, currentArticleForAssignment,
                currentArticleLocation, nameInput, nearbyResult>>

serverVars == <<store, net, clock>>

\* circles, selectedCircle, selectedArticle, formValues
circleVars == <<circles, selectedCircle, selectedArticle, formValues>>

\* articles, routes, selectedRoute, routeData, loading, error
loadVars == <<articles, routes, selectedRoute, routeData, loading, error>>

reactVars == <<circleVars, loadVars, selectedCircleId, alerted>>

vars == <<legacyVars, serverVars, reactVars, measured, userActions>>

\* App.tsx findNearbyCircles(lat, lon): reads the global allCircles.
findNearbyCircles(lat, lon) == findNearbyCirclesOf(allCircles, lat, lon)

\* CircleManager emptyCircle
emptyCircle ==
    [id |-> "", name |-> "", center |-> Berlin, radius |-> Num(500),
     color |-> "#1976d2", articles |-> <<>>]

\* The script's globals as declared, and the page before anything is shown.
LegacyStart ==
    /\ allCircles = <<>>
    /\ currentCircleId = NoId
    /\ circleData = Null
    /\ currentArticleForAssignment = Null
    /\ currentArticleLocation = Null
    /\ nameInput = ""
    /\ nearbyResult = <<>>

\* null where an error message (a string) is expected: like null it is falsy.
NoError == ""

\* useState initial values of App, CircleManager and ArticleDetail; no
\* alert has been shown.
ReactStart ==
    /\ circles = <<>>
    /\ selectedCircle = Null
    /\ selectedArticle = Null
    /\ formValues = emptyCircle
    /\ articles = <<>>
    /\ routes = <<>>
    /\ selectedRoute = Null
    /\ routeData = Null
    /\ loading = TRUE
    /\ error = NoError
    /\ selectedCircleId = ""
    /\ alerted = ""

-----------------------------------------------------------------------------
\* Operations of the proximity code.

\* showNearbyCircles over a findNearbyCircles that sorts allCircles itself
\* (sort works in place) before it filters.
showNearbyCirclesSortingInPlace(articleId, lat, lon, title) ==
    /\ currentArticleForAssignment' = [id |-> articleId, title |-> title]
    /\ currentArticleLocation' = <<lat, lon>>
    /\ allCircles' = sortByDistance(allCircles, lat, lon)
    /\ nearbyResult' = findNearbyCirclesOf(allCircles', lat, lon)
    /\ UNCHANGED <<currentCircleId, circleData, nameInput>>
    /\ UNCHANGED <<serverVars, reactVars, measured>>

\* App.tsx showNearbyCircles(articleId, lat, lon, title), without the DOM text.
showNearbyCircles(articleId, lat, lon, title) ==
    /\ currentArticleForAssignment' = [id |-> articleId, title |-> title]
    /\ currentArticleLocation' = <<lat, lon>>
    /\ nearbyResult' = findNearbyCircles(lat, lon)
    /\ UNCHANGED <<allCircles, currentCircleId, circleData, nameInput>>
    /\ UNCHANGED <<serverVars, reactVars, measured>>

ShowNearby ==
    /\ \E a \in ArticleUniverse : showNearbyCircles(a.pageid, a.lat, a.lon, a.title)
    /\ UNCHANGED userActions

\* MapView onArticleClick={setSelectedArticle}: ArticleDetail is rendered.
onArticleClick(article) ==
    /\ selectedArticle' = article
    /\ UNCHANGED <<circles, selectedCircle, formValues>>
    /\ UNCHANGED <<loadVars, selectedCircleId, alerted>>
    /\ UNCHANGED <<legacyVars, serverVars, measured>>

ArticleClick ==
    /\ \E a \in ArticleUniverse : onArticleClick(a)
    /\ UNCHANGED userActions

\* ArticleDetail onClose={() => setSelectedArticle(null)}: ArticleDetail is
\* unmounted, and its selectedCircleId is '' when it is mounted again.
onClose ==
    /\ selectedArticle # Null
    /\ selectedArticle' = Null
    /\ selectedCircleId' = ""
    /\ UNCHANGED <<circles, selectedCircle, formValues>>
    /\ UNCHANGED <<loadVars, alerted>>
    /\ UNCHANGED <<legacyVars, serverVars, measured>>

ArticleClose ==
    /\ onClose
    /\ UNCHANGED userActions

\* The proximity engine on a circle list already loaded from the backend:
\* the legacy page after initializeArticleData and the React app after
\* fetchData hold the same list.
InitNearby ==
    /\ \E list \in CircleLists :
          /\ allCircles = list
          /\ circles = list
          /\ store = list
    /\ currentCircleId = NoId
    /\ circleData = Null
    /\ currentArticleForAssignment = Null
    /\ currentArticleLocation = Null
    /\ nameInput = ""
    /\ nearbyResult = <<>>
    /\ net = {}
    /\ clock = 0
    /\ selectedCircle = Null
    /\ selectedArticle = Null
    /\ formValues = emptyCircle
    /\ articles = ArticleList
    /\ routes = RouteList
    /\ selectedRoute = Null
    /\ routeData = Null
    /\ loading = FALSE
    /\ error = NoError
    /\ selectedCircleId = ""
    /\ alerted = ""
    /\ measured = Null
    /\ userActions = 0

NextNearby == ShowNearby \/ ArticleClick \/ ArticleClose

SpecNearby == InitNearby /\ [][NextNearby]_vars

-----------------------------------------------------------------------------
\* The distance functions on their own: each is called once on a pair of
\* points.

calculateDistanceCall ==
    /\ measured.calculateDistance = Null
    /\ measured' = [measured EXCEPT !.calculateDistance =
                       [d |-> CalcDist(measured.p1[1], measured.p1[2],
                                       measured.p2[1], measured.p2[2])]]
    /\ UNCHANGED <<legacyVars, serverVars, reactVars, userActions>>

getDistanceFromLatLonInMCall ==
    /\ measured.getDistanceFromLatLonInM = Null
    /\ measured' = [measured EXCEPT !.getDistanceFromLatLonInM =
                       [d |-> GetDist(measured.p1[1], measured.p1[2],
                                      measured.p2[1], measured.p2[2])]]
    /\ UNCHANGED <<legacyVars, serverVars, reactVars, userActions>>

InitDistance ==
    /\ LegacyStart
    /\ ReactStart
    /\ store = <<>>
    /\ net = {}
    /\ clock = 0
    /\ \E p \in Points, q \in Points :
          measured = [p1 |-> p, p2 |-> q,
                      calculateDistance |-> Null, getDistanceFromLatLonInM |-> Null]
    /\ userActions = 0

NextDistance == calculateDistanceCall \/ getDistanceFromLatLonInMCall

SpecDistance == InitDistance /\ [][NextDistance]_vars

-----------------------------------------------------------------------------
\* findNearbyCircles called with a threshold: for one point and one
\* collection the function is called with a smaller and with a larger
\* threshold.

\* The thresholds (meters) a caller passes.
Thresholds == {500, 1000, 3000}

\* findNearbyCircles(lat, lon, threshold): the function declares the
\* parameters (lat, lon) only, so a third argument is dropped by the call.
findNearbyCirclesWithThreshold(lat, lon, threshold) == findNearbyCircles(lat, lon)

findNearbyCirclesCall ==
    /\ \E k \in {"near1", "near2"} :
          /\ measured[k] = Null
          /\ measured' = [measured EXCEPT ![k] =
                 [circles |-> findNearbyCirclesWithThreshold(
                                  measured.p[1], measured.p[2],
                                  IF k = "near1" THEN measured.t1 ELSE measured.t2)]]
    /\ UNCHANGED <<legacyVars, serverVars, reactVars, userActions>>

InitThreshold ==
    /\ allCircles \in CircleLists
    /\ currentCircleId = NoId
    /\ circleData = Null
    /\ currentArticleForAssignment = Null
    /\ currentArticleLocation = Null
    /\ nameInput = ""
    /\ nearbyResult = <<>>
    /\ ReactStart
    /\ store = allCircles
    /\ net = {}
    /\ clock = 0
    /\ \E p \in {Berlin, East2116}, t1 \in Thresholds, t2 \in Thresholds :
          /\ t1 < t2
          /\ measured = [p |-> p, t1 |-> t1, t2 |-> t2, near1 |-> Null, near2 |-> Null]
    /\ userActions = 0

NextThreshold == findNearbyCirclesCall

SpecThreshold == InitThreshold /\ [][NextThreshold]_vars

-----------------------------------------------------------------------------
\* Properties of the proximity code.

\* The distance findNearbyCircles computes from the location of the last
\* showNearbyCircles call to the centre of circle c.
DistanceTo(c) ==
    CalcDist(currentArticleLocation[1], currentArticleLocation[2], c.center[1], c.center[2])

C2_AscendingDistance ==
    currentArticleForAssignment # Null =>
        \A i \in 1..(Len(nearbyResult) - 1) :
            FLe(DistanceTo(nearbyResult[i]), DistanceTo(nearbyResult[i + 1]))

\* A result in which the sort moved a nearer circle in front of a farther one
\* that precedes it in the collection.
C2_Witness ==
    /\ currentArticleForAssignment # Null
    /\ \E i \in 1..Len(allCircles), j \in 1..Len(allCircles) :
          /\ i < j
          /\ Len(nearbyResult) >= 2
          /\ nearbyResult[1] = allCircles[j]
          /\ nearbyResult[2] = allCircles[i]
          /\ FLt(DistanceTo(allCircles[j]), DistanceTo(allCircles[i]))

\* The distance from the article shown in ArticleDetail to the centre of c.
ArticleDistanceTo(c) ==
    GetDist(selectedArticle.lat, selectedArticle.lon, c.center[1], c.center[2])

\* C3: the 'Nearby Circles' list of ArticleDetail holds exactly the circles
\* whose centre is at most the circle's radius from the article, a distance
\* equal to the radius included.
C3_WithinCircle ==
    selectedArticle # Null =>
        /\ Range(nearbyCircles(selectedArticle, circles)) \subseteq Range(circles)
        /\ \A c \in Range(circles) :
              (c \in Range(nearbyCircles(selectedArticle, circles))) <=>
                  (FLt(ArticleDistanceTo(c), c.radius) \/ ArticleDistanceTo(c) = c.radius)

\* An article on the boundary of a listed circle, and a circle not listed.
C3_Witness ==
    /\ selectedArticle # Null
    /\ \E c \in Range(nearbyCircles(selectedArticle, circles)) :
          ArticleDistanceTo(c) = c.radius /\ ~IsZero(c.radius)
    /\ Range(circles) \ Range(nearbyCircles(selectedArticle, circles)) # {}


\* C6: every circle the containment filter of ArticleDetail lists for a
\* point is in the result of findNearbyCircles for the same point over the
\* same circles.
C6_ContainmentWithinNearby ==
    (/\ currentArticleForAssignment # Null
     /\ selectedArticle # Null
     /\ currentArticleLocation = <<selectedArticle.lat, selectedArticle.lon>>
     /\ allCircles = circles)
        => Range(nearbyCircles(selectedArticle, circles)) \subseteq Range(nearbyResult)

\* C9: the distance from a point to itself is exactly 0, as calculateDistance
\* computes it and as getDistanceFromLatLonInM computes it.
C9_ZeroAtSamePoint ==
    (measured # Null /\ measured.p1 = measured.p2) =>
        /\ measured.calculateDistance # Null => measured.calculateDistance.d = Zero
        /\ measured.getDistanceFromLatLonInM # Null
              => measured.getDistanceFromLatLonInM.d = Zero

\* Both functions have been called on a point, not on the equator, and itself.
C9_Witness ==
    /\ measured # Null
    /\ measured.p1 = measured.p2
    /\ ~IsZero(measured.p1[1])
    /\ measured.calculateDistance # Null
    /\ measured.getDistanceFromLatLonInM # Null

\* C10: the distance between two points is at least 0 and is the same in
\* both directions, in either implementation.
C10_SymmetricNonNegative ==
    measured # Null =>
        /\ measured.calculateDistance # Null =>
              /\ FLe(Zero, measured.calculateDistance.d)
              /\ measured.calculateDistance.d =
                     CalcDist(measured.p2[1], measured.p2[2], measured.p1[1], measured.p1[2])
        /\ measured.getDistanceFromLatLonInM # Null =>
              /\ FLe(Zero, measured.getDistanceFromLatLonInM.d)
              /\ measured.getDistanceFromLatLonInM.d =
                     GetDist(measured.p2[1], measured.p2[2], measured.p1[1], measured.p1[2])

\* The distance findNearbyCircles computes from the point of the calls with
\* a threshold to the centre of circle c.
ThresholdDistanceTo(c) ==
    CalcDist(measured.p[1], measured.p[2], c.center[1], c.center[2])

\* C11: threshold monotonicity: the caller can pass any threshold and the
\* result changes accordingly.  For thresholds t1 < t2, the same point and
\* the same circles, every circle the fixed-threshold clause admits into
\* findNearby(p, circles, t1) is in findNearby(p, circles, t2), and the
\* fixed-threshold clause of a call admits every circle of the collection
\* that is at most the passed threshold from the point.
C11_ThresholdMonotone ==
    measured # Null =>
        /\ (measured.near1 # Null /\ measured.near2 # Null) =>
              \A c \in Range(measured.near1.circles) :
                  FLe(ThresholdDistanceTo(c), Num(measured.t1))
                      => c \in Range(measured.near2.circles)
        /\ measured.near1 # Null =>
              \A c \in Range(allCircles) :
                  FLe(ThresholdDistanceTo(c), Num(measured.t1))
                      => c \in Range(measured.near1.circles)
        /\ measured.near2 # Null =>
              \A c \in Range(allCircles) :
                  FLe(ThresholdDistanceTo(c), Num(measured.t2))
                      => c \in Range(measured.near2.circles)

\* The position of circle c in the array q.
IndexOf(q, c) == CHOOSE i \in 1..Len(q) : q[i] = c

\* C12: the sort of findNearbyCircles is stable: two circles of the result
\* that are at equal distance from the point are in the same relative order
\* as in the collection.
C12_StableSort ==
    currentArticleForAssignment # Null =>
        \A i \in 1..Len(nearbyResult), j \in 1..Len(nearbyResult) :
            (i < j /\ DistanceTo(nearbyResult[i]) = DistanceTo(nearbyResult[j]))
                => IndexOf(allCircles, nearbyResult[i]) < IndexOf(allCircles, nearbyResult[j])

\* A result with two circles at the same distance, not 0, behind which or in
\* front of which the sort moved another circle.
C12_Witness ==
    /\ currentArticleForAssignment # Null
    /\ \E i \in 1..Len(nearbyResult), j \in 1..Len(nearbyResult) :
          /\ i < j
          /\ DistanceTo(nearbyResult[i]) = DistanceTo(nearbyResult[j])
          /\ ~IsZero(DistanceTo(nearbyResult[i]))
    /\ \E i \in 1..Len(nearbyResult), j \in 1..Len(nearbyResult) :
          /\ i < j
          /\ IndexOf(allCircles, nearbyResult[i]) > IndexOf(allCircles, nearbyResult[j])

\* C13: a circle with radius <= 0 contains no point, its own centre
\* included: the containment filter of ArticleDetail never lists such a
\* circle, and findNearbyCircles returns one only when its centre is at
\* most 1000 meters (the fixed threshold) from the point.
C13_NonPositiveRadiusContainsNothing ==
    /\ selectedArticle # Null =>
          \A c \in Range(nearbyCircles(selectedArticle, circles)) : FGt(c.radius, Zero)
    /\ currentArticleForAssignment # Null =>
          \A c \in Range(nearbyResult) :
              ~FGt(c.radius, Zero) => FLe(DistanceTo(c), Num(1000))

-----------------------------------------------------------------------------
\* The legacy editor page and the backend it talks to.

\* Requests in flight at once that the model follows.
MaxInflight == 2

\* The last value of the clock (Date.now()) the model follows.
MaxClock == 1

\* User actions in one session of the editor page that the model follows.
MaxUserActions == 3

\* The articles with a marker on the editor's map.
LegacyArticles == { a \in ArticleUniverse : a.pageid \in {1, 4} }

\* The circle the drawing tool hands to handleNewCircle.
DrawnLayers == { [center |-> East529, radius |-> Num(300)] }

\* What the user types into 'circle-name'.
Names == {"", " ", "Mitte"}

\* String.prototype.trim() on the values the name input takes.
trim(value) ==
    CASE value = " " -> ""
      [] OTHER -> value

\* data.name || '': the name of a circle as the backend returned it, '' when
\* the circle has none.
nameOrEmpty(data) ==
    IF "name" \in DOMAIN data THEN data.name ELSE ""

\* JSON.stringify({ id, name: data.name, center, radius, color, articles }):
\* a property whose value is undefined is left out.
circleJson(circleId, data, articleIds) ==
    IF "name" \in DOMAIN data
    THEN [id |-> circleId, name |-> data.name, center |-> data.center,
          radius |-> data.radius, color |-> data.color, articles |-> articleIds]
    ELSE [id |-> circleId, center |-> data.center,
          radius |-> data.radius, color |-> data.color, articles |-> articleIds]

\* A fetch in flight: phase "req" until the backend has handled it, then
\* "resp" until its .then callback has run.  circleId and articleId are the
\* values the callback's closure holds; body is the JSON body sent or
\* received, list the array /api/circles returns; orphan marks a request
\* whose page has been reloaded, so that no callback is left to run.
Msg(kind, phase, circleId, articleId, body, list, orphan) ==
    [kind |-> kind, phase |-> phase, circleId |-> circleId, articleId |-> articleId,
     body |-> body, list |-> list, orphan |-> orphan]

Request(kind, circleId, articleId, body) ==
    Msg(kind, "req", circleId, articleId, body, <<>>, FALSE)

Response(m, body, list) == [m EXCEPT !.phase = "resp", !.body = body, !.list = list]

\* The requests that change the stored circles.
Writes == {"assignSave", "createSave", "remove", "save", "newSave", "deleteCircle"}

\* Backend: the stored circle with this id, Null when there is none.
GetCircle(id) ==
    IF \E i \in 1..Len(store) : store[i].id = id
    THEN store[CHOOSE i \in 1..Len(store) : store[i].id = id]
    ELSE Null

\* Backend /save-circle: the circle replaces the stored circle of the same
\* id, or is added.
SaveCircle(circle) ==
    IF \E i \in 1..Len(store) : store[i].id = circle.id
    THEN [i \in 1..Len(store) |-> IF store[i].id = circle.id THEN circle ELSE store[i]]
    ELSE Append(store, circle)

\* Backend /remove-article-from-circle: the article id leaves the circle's list.
RemoveArticle(circleId, articleId) ==
    [i \in 1..Len(store) |->
        IF store[i].id = circleId
        THEN [store[i] EXCEPT !.articles = SelectSeq(@, LAMBDA x : x # articleId)]
        ELSE store[i]]

\* One more action of the user.
UserAction ==
    /\ userActions < MaxUserActions
    /\ userActions' = userActions + 1

\* Backend DELETE /delete-circle/<id>: the circle <id> is no longer stored.
LegacyDeleteCircle(id) == SelectSeq(store, LAMBDA c : c.id # id)

\* The backend handles one request and answers it.
BackendHandle(m) ==
    /\ m \in net
    /\ m.phase = "req"
    /\ store' = CASE m.kind \in {"assignSave", "createSave", "save", "newSave"}
                       -> SaveCircle(m.body)
                  [] m.kind = "remove" -> RemoveArticle(m.circleId, m.articleId)
                  [] m.kind = "deleteCircle" -> LegacyDeleteCircle(m.circleId)
                  [] OTHER -> store
    /\ net' = (net \ {m}) \cup
              (IF m.orphan THEN {}
               ELSE { CASE m.kind \in {"assignGet", "load"}
                             -> Response(m, GetCircle(m.circleId), <<>>)
                        [] m.kind = "circles" -> Response(m, Null, store)
                        [] m.kind = "remove"
                             -> Response(m, [status |->
                                    IF GetCircle(m.circleId) # Null
                                    THEN "removed" ELSE "not found"], <<>>)
                        [] m.kind = "deleteCircle"
                             -> Response(m, [status |-> "deleted"], <<>>)
                        [] OTHER -> Response(m, [status |-> "saved"], <<>>) })
    /\ UNCHANGED <<legacyVars, clock, reactVars, measured>>

Backend ==
    /\ \E m \in net : BackendHandle(m)
    /\ UNCHANGED userActions

\* Date.now() advances.
Tick ==
    /\ clock < MaxClock
    /\ clock' = clock + 1
    /\ UNCHANGED <<legacyVars, store, net, reactVars, measured, userActions>>

\* 'circle_' + Date.now()
NewCircleId == "circle_" \o ToString(clock)

\* App.tsx initializeArticleData(): the request it sends.
initializeArticleDataRequest == Request("circles", "", 0, Null)

\* App.tsx initializeArticleData(): .then(data => { allCircles = data; })
initializeArticleDataThen(m) ==
    /\ m \in net
    /\ m.kind = "circles"
    /\ m.phase = "resp"
    /\ allCircles' = m.list
    /\ net' = net \ {m}
    /\ UNCHANGED <<currentCircleId, circleData, currentArticleForAssignment,
                   currentArticleLocation, nameInput, nearbyResult>>
    /\ UNCHANGED <<store, clock, reactVars, measured>>

CirclesLoaded ==
    /\ \E m \in net : initializeArticleDataThen(m)
    /\ UNCHANGED userActions

\* App.tsx loadCircleData(): the request it sends, none without a current circle.
loadCircleDataRequests(circleId) ==
    IF circleId = NoId THEN {} ELSE { Request("load", circleId, 0, Null) }

\* App.tsx loadCircleData(): .then(data => { circleData = data; ... })
loadCircleDataThen(m) ==
    /\ m \in net
    /\ m.kind = "load"
    /\ m.phase = "resp"
    /\ circleData' = m.body
    /\ nameInput' = IF m.body = Null THEN "" ELSE nameOrEmpty(m.body)
    /\ net' = net \ {m}
    /\ UNCHANGED <<allCircles, currentCircleId, currentArticleForAssignment,
                   currentArticleLocation, nearbyResult>>
    /\ UNCHANGED <<store, clock, reactVars, measured>>

CircleDataLoaded ==
    /\ \E m \in net : loadCircleDataThen(m)
    /\ UNCHANGED userActions

\* App.tsx assignArticleToCircle(articleId, circleId, articleTitle): the
\* click on a circle option sends GET /get-circle/<circleId>.
assignArticleToCircle(articleId, circleId) ==
    /\ Cardinality(net) < MaxInflight
    /\ net' = net \cup { Request("assignGet", circleId, articleId, Null) }
    /\ UNCHANGED <<legacyVars, store, clock, reactVars, measured>>

\* The options rendered by showNearbyCircles carry the article and the circle.
AssignClick ==
    /\ UserAction
    /\ currentArticleForAssignment # Null
    /\ \E i \in 1..Len(nearbyResult) :
          assignArticleToCircle(currentArticleForAssignment.id, nearbyResult[i].id)

\* The first .then of assignArticleToCircle without the includes() test.
assignArticleToCircleThenAlways(m) ==
    /\ m \in net
    /\ m.kind = "assignGet"
    /\ m.phase = "resp"
    /\ net' = (net \ {m}) \cup
              { Request("assignSave", m.circleId, m.articleId,
                        circleJson(m.circleId, m.body,
                                   Append(m.body.articles, m.articleId))) }
    /\ UNCHANGED <<legacyVars, store, clock, reactVars, measured>>

\* App.tsx assignArticleToCircle: the first .then, on the circle fetched:
\* the article is added and the circle saved unless it is already a member.
assignArticleToCircleThen(m) ==
    /\ m \in net
    /\ m.kind = "assignGet"
    /\ m.phase = "resp"
    /\ net' = (net \ {m}) \cup
              (IF \A i \in 1..Len(m.body.articles) : m.body.articles[i] # m.articleId
               THEN { Request("assignSave", m.circleId, m.articleId,
                              circleJson(m.circleId, m.body,
                                         Append(m.body.articles, m.articleId))) }
               ELSE {})
    /\ UNCHANGED <<legacyVars, store, clock, reactVars, measured>>

AssignFetched ==
    /\ \E m \in net : assignArticleToCircleThen(m)
    /\ UNCHANGED userActions

\* App.tsx assignArticleToCircle: the last .then, after the save.
assignArticleToCircleSaved(m) ==
    /\ m \in net
    /\ m.kind = "assignSave"
    /\ m.phase = "resp"
    /\ net' = (net \ {m}) \cup
              (IF currentCircleId = m.circleId THEN loadCircleDataRequests(currentCircleId)
               ELSE {})
    /\ UNCHANGED <<legacyVars, store, clock, reactVars, measured>>

AssignSaved ==
    /\ \E m \in net : assignArticleToCircleSaved(m)
    /\ UNCHANGED userActions

\* The page is loaded again: the script's globals are as declared, the
\* DOMContentLoaded handler calls initializeArticleData(), and the callbacks
\* of the page that was left never run; the backend still handles the
\* writes that page had sent.
Reloaded ==
    /\ allCircles' = <<>>
    /\ currentCircleId' = NoId
    /\ circleData' = Null
    /\ currentArticleForAssignment' = Null
    /\ currentArticleLocation' = Null
    /\ nameInput' = ""
    /\ nearbyResult' = <<>>

Orphans(msgs) ==
    { [m EXCEPT !.orphan = TRUE] : m \in { x \in msgs : x.phase = "req" /\ x.kind \in Writes } }

\* App.tsx createCircleForArticle(): a circle of radius 200 around the
\* article shown, holding the article.
createCircleForArticle ==
    /\ UserAction
    /\ currentArticleForAssignment # Null
    /\ currentArticleLocation # Null
    /\ Cardinality(net) < MaxInflight
    /\ Len(store) < MaxCircles
    /\ net' = net \cup
              { Request("createSave", NewCircleId, currentArticleForAssignment.id,
                        [id |-> NewCircleId,
                         name |-> "Circle for " \o currentArticleForAssignment.title,
                         center |-> currentArticleLocation,
                         radius |-> Num(200),
                         color |-> "#95276E",
                         articles |-> <<currentArticleForAssignment.id>>]) }
    /\ UNCHANGED <<legacyVars, store, clock, reactVars, measured>>

\* App.tsx createCircleForArticle: .then(data => { ...; window.location.reload(); })
createCircleForArticleThen(m) ==
    /\ m \in net
    /\ m.kind = "createSave"
    /\ m.phase = "resp"
    /\ Reloaded
    /\ net' = Orphans(net \ {m}) \cup {initializeArticleDataRequest}
    /\ UNCHANGED <<store, clock, reactVars, measured>>

CircleCreated ==
    /\ \E m \in net : createCircleForArticleThen(m)
    /\ UNCHANGED userActions

\* App.tsx removeAssignedArticle(articleId)
removeAssignedArticle(articleId) ==
    /\ currentCircleId # NoId
    /\ Cardinality(net) < MaxInflight
    /\ net' = net \cup { Request("remove", currentCircleId, articleId, Null) }
    /\ UNCHANGED <<legacyVars, store, clock, reactVars, measured>>

\* The remove buttons updateAssignedArticles renders, one per assigned article.
RemoveClick ==
    /\ UserAction
    /\ circleData # Null
    /\ \E i \in 1..Len(circleData.articles) : removeAssignedArticle(circleData.articles[i])

\* App.tsx removeAssignedArticle: .then(data => { if (data.status === 'removed') loadCircleData(); })
removeAssignedArticleThen(m) ==
    /\ m \in net
    /\ m.kind = "remove"
    /\ m.phase = "resp"
    /\ net' = (net \ {m}) \cup
              (IF m.body.status = "removed" THEN loadCircleDataRequests(currentCircleId)
               ELSE {})
    /\ UNCHANGED <<legacyVars, store, clock, reactVars, measured>>

ArticleRemoved ==
    /\ \E m \in net : removeAssignedArticleThen(m)
    /\ UNCHANGED userActions

\* App.tsx selectCircle(circleId)
selectCircle(circleId) ==
    /\ Cardinality(net) < MaxInflight
    /\ currentCircleId' = circleId
    /\ net' = net \cup loadCircleDataRequests(circleId)
    /\ UNCHANGED <<allCircles, circleData, currentArticleForAssignment,
                   currentArticleLocation, nameInput, nearbyResult>>
    /\ UNCHANGED <<store, clock, reactVars, measured>>

\* A click on one of the circles drawn on the map.
CircleClick ==
    /\ UserAction
    /\ \E i \in 1..Len(store) : selectCircle(store[i].id)

\* The user edits the 'circle-name' input.
typeCircleName(name) ==
    /\ currentCircleId # NoId
    /\ nameInput' = name
    /\ UNCHANGED <<allCircles, currentCircleId, circleData, currentArticleForAssignment,
                   currentArticleLocation, nearbyResult>>
    /\ UNCHANGED <<store, net, clock, reactVars, measured>>

TypeName ==
    /\ UserAction
    /\ \E name \in Names : typeCircleName(name)

\* saveCircle with the name taken from the input as typed.
saveCircleUntrimmed ==
    /\ UserAction
    /\ currentCircleId # NoId
    /\ circleData # Null
    /\ Cardinality(net) < MaxInflight
    /\ net' = net \cup
              { Request("save", currentCircleId, 0,
                        [id |-> currentCircleId,
                         name |-> IF nameInput = "" THEN "Unnamed Circle" ELSE nameInput,
                         center |-> circleData.center,
                         radius |-> circleData.radius,
                         color |-> circleData.color,
                         articles |-> circleData.articles]) }
    /\ UNCHANGED <<legacyVars, store, clock, reactVars, measured>>

\* App.tsx saveCircle()
saveCircle ==
    /\ UserAction
    /\ currentCircleId # NoId
    /\ circleData # Null
    /\ Cardinality(net) < MaxInflight
    /\ net' = net \cup
              { Request("save", currentCircleId, 0,
                        [id |-> currentCircleId,
                         name |-> IF trim(nameInput) = "" THEN "Unnamed Circle"
                                  ELSE trim(nameInput),
                         center |-> circleData.center,
                         radius |-> circleData.radius,
                         color |-> circleData.color,
                         articles |-> circleData.articles]) }
    /\ UNCHANGED <<legacyVars, store, clock, reactVars, measured>>

\* App.tsx saveCircle: .then(data => { ...; loadCircleData(); initializeArticleData(); })
saveCircleThen(m) ==
    /\ m \in net
    /\ m.kind = "save"
    /\ m.phase = "resp"
    /\ net' = (net \ {m}) \cup loadCircleDataRequests(currentCircleId)
                           \cup {initializeArticleDataRequest}
    /\ UNCHANGED <<legacyVars, store, clock, reactVars, measured>>

CircleSaved ==
    /\ \E m \in net : saveCircleThen(m)
    /\ UNCHANGED userActions

\* deleteCircle that does not ask for confirmation.
deleteCircleUnconfirmed(confirmed) ==
    IF currentCircleId = NoId
    THEN UNCHANGED <<legacyVars, serverVars, reactVars, measured>>
    ELSE /\ Cardinality(net) < MaxInflight
         /\ net' = net \cup { Request("deleteCircle", currentCircleId, 0, Null) }
         /\ UNCHANGED <<legacyVars, store, clock, reactVars, measured>>

\* App.tsx deleteCircle(): if (!currentCircleId) return; if (confirm(...))
\* fetch('/delete-circle/' + currentCircleId, { method: 'DELETE' }).
\* confirmed is the answer to the confirmation dialog.
deleteCircle(confirmed) ==
    IF currentCircleId = NoId
    THEN UNCHANGED <<legacyVars, serverVars, reactVars, measured>>
    ELSE IF confirmed
         THEN /\ Cardinality(net) < MaxInflight
              /\ net' = net \cup { Request("deleteCircle", currentCircleId, 0, Null) }
              /\ UNCHANGED <<legacyVars, store, clock, reactVars, measured>>
         ELSE UNCHANGED <<legacyVars, serverVars, reactVars, measured>>

\* The click on 'delete-circle-btn'.
DeleteClick ==
    /\ UserAction
    /\ \E confirmed \in BOOLEAN : deleteCircle(confirmed)

\* App.tsx deleteCircle: .then(data => { ...; currentCircleId = null;
\* circleData = null; window.location.reload(); })
deleteCircleThen(m) ==
    /\ m \in net
    /\ m.kind = "deleteCircle"
    /\ m.phase = "resp"
    /\ Reloaded
    /\ net' = Orphans(net \ {m}) \cup {initializeArticleDataRequest}
    /\ UNCHANGED <<store, clock, reactVars, measured>>

LegacyCircleDeleted ==
    /\ \E m \in net : deleteCircleThen(m)
    /\ UNCHANGED userActions

\* App.tsx handleNewCircle(layer)
handleNewCircle(layer) ==
    /\ Cardinality(net) < MaxInflight
    /\ Len(store) < MaxCircles
    /\ currentCircleId' = NewCircleId
    /\ circleData' = [id |-> NewCircleId, name |-> "New Circle", center |-> layer.center,
                      radius |-> layer.radius, color |-> "#95276E", articles |-> <<>>]
    /\ nameInput' = "New Circle"
    /\ net' = net \cup { Request("newSave", NewCircleId, 0, circleData') }
    /\ UNCHANGED <<allCircles, currentArticleForAssignment, currentArticleLocation,
                   nearbyResult>>
    /\ UNCHANGED <<store, clock, reactVars, measured>>

NewCircleDrawn ==
    /\ UserAction
    /\ \E layer \in DrawnLayers : handleNewCircle(layer)

\* App.tsx handleNewCircle: .then(data => { ...; initializeArticleData(); })
handleNewCircleThen(m) ==
    /\ m \in net
    /\ m.kind = "newSave"
    /\ m.phase = "resp"
    /\ net' = (net \ {m}) \cup {initializeArticleDataRequest}
    /\ UNCHANGED <<legacyVars, store, clock, reactVars, measured>>

NewCircleSaved ==
    /\ \E m \in net : handleNewCircleThen(m)
    /\ UNCHANGED userActions

\* showNearbyCircles: <strong>${circle.name || 'Unnamed Circle'}</strong>
circleOptionLabel(circle) ==
    IF nameOrEmpty(circle) = "" THEN "Unnamed Circle" ELSE circle.name

\* The labels of the circle options showNearbyCircles has put into
\* 'nearby-circles-list', one for each circle findNearbyCircles returned.
nearbyCirclesList ==
    [i \in 1..Len(nearbyResult) |-> circleOptionLabel(nearbyResult[i])]

\* showNearbyCircles for an article marker of the editor's map.
ShowNearbyLegacy ==
    /\ UserAction
    /\ \E a \in LegacyArticles : showNearbyCircles(a.pageid, a.lat, a.lon, a.title)

\* The circles stored when the editor page is opened.
LegacyStores == { <<CHOOSE c \in CircleUniverse : c.id = "c", Nameless>> }

\* The editor page as DOMContentLoaded leaves it: initializeArticleData()
\* has sent its request.
InitLegacy ==
    /\ LegacyStart
    /\ ReactStart
    /\ store \in LegacyStores
    /\ net = {initializeArticleDataRequest}
    /\ clock = 0
    /\ measured = Null
    /\ userActions = 0

NextLegacy ==
    \/ Backend
    \/ Tick
    \/ CirclesLoaded
    \/ ShowNearbyLegacy
    \/ AssignClick
    \/ AssignFetched
    \/ AssignSaved
    \/ createCircleForArticle
    \/ CircleCreated
    \/ RemoveClick
    \/ ArticleRemoved
    \/ CircleClick
    \/ CircleDataLoaded
    \/ TypeName
    \/ saveCircle
    \/ CircleSaved
    \/ NewCircleDrawn
    \/ NewCircleSaved

SpecLegacy == InitLegacy /\ [][NextLegacy]_vars

-----------------------------------------------------------------------------
\* Assigning articles: the editor page with the handlers that read a circle
\* and write it back, and no handler that removes an article.

NextAssign ==
    \/ Backend
    \/ CirclesLoaded
    \/ ShowNearby
    \/ AssignClick
    \/ AssignFetched
    \/ AssignSaved
    \/ CircleClick
    \/ CircleDataLoaded
    \/ saveCircle
    \/ CircleSaved

SpecAssign == InitLegacy /\ [][NextAssign]_vars

-----------------------------------------------------------------------------
\* Properties of the editor page.

\* A step in which showNearbyCircles has called findNearbyCircles and shown
\* something new.
NearbyCalled ==
    /\ currentArticleForAssignment' # Null
    /\ \/ nearbyResult' # nearbyResult
       \/ currentArticleForAssignment' # currentArticleForAssignment

\* C4: findNearbyCircles is a pure function of its arguments: a call for
\* the point of the call before it returns the same circles as that call,
\* whatever reload, save or creation has run or is in flight between the
\* two calls.
C4_PureOfArguments ==
    [][(/\ NearbyCalled
        /\ currentArticleForAssignment # Null
        /\ currentArticleLocation' = currentArticleLocation)
          => nearbyResult' = nearbyResult]_vars

\* C5: a call of findNearbyCircles leaves the circle collection it reads as
\* it was (the same elements in the same order with the same field values)
\* and creates, modifies or removes no circle: nothing is stored and no
\* request is sent.
C5_CollectionUnchanged ==
    [][NearbyCalled =>
          /\ allCircles' = allCircles
          /\ circleData' = circleData
          /\ store' = store
          /\ net' = net]_vars

\* A call has returned the loaded circles in another order than the
\* collection holds them.
C5_Witness ==
    /\ currentArticleForAssignment # Null
    /\ Len(nearbyResult) >= 2
    /\ Range(nearbyResult) = Range(allCircles)
    /\ nearbyResult # allCircles

\* C8: no stored circle's articles list holds the same article id twice,
\* whatever assignArticleToCircle, createCircleForArticle and
\* removeAssignedArticle requests have run or are running.
C8_NoDuplicateArticles ==
    \A i \in 1..Len(store) :
        \A j \in 1..Len(store[i].articles), k \in 1..Len(store[i].articles) :
            store[i].articles[j] = store[i].articles[k] => j = k

\* An article has been assigned to a circle that had none while a second
\* assignment of it to the same circle is still on its way to the backend.
C8_Witness ==
    \E i \in 1..Len(store) :
        /\ store[i].id = "c"
        /\ store[i].articles # <<>>
        /\ \E m \in net :
              /\ m.kind = "assignSave"
              /\ m.phase = "req"
              /\ m.circleId = store[i].id
              /\ m.articleId = store[i].articles[1]

-----------------------------------------------------------------------------
\* The React application: App (App.tsx lines 9-222) with CircleManager,
\* RouteSelector and ArticleDetail.

\* What the user types into the inputs 'id', 'radius', 'center' (the parts
\* between the commas) and picks in 'color'.
Ids == {"", "b", "z"}

RadiusInputs == {"", "0", "-5", "300"}

CenterInputs == { <<"0", "0">>, <<"300", "">> }

Colors == {"#000000"}

\* parseFloat on the strings typed.
parseFloat(value) ==
    CASE value = "0" -> Num(0)
      [] value = "-5" -> Num(-5)
      [] value = "300" -> Num(300)
      [] OTHER -> NaN

\* A request that was rejected: the await throws.
Rejected(m) == [m EXCEPT !.phase = "err"]

\* The requests of fetchData, and the GET /api/circles requests of the
\* circle handlers.
Fetches == {"fetchArticles", "fetchCircles", "fetchRoutes"}

Reloads == {"createReload", "updateReload", "deleteReload", "addReload", "removeReload"}

\* Backend PUT /api/circles/<id>: the body replaces the stored circle <id>.
PutCircle(id, circle) ==
    [i \in 1..Len(store) |-> IF store[i].id = id THEN circle ELSE store[i]]

\* Backend POST /api/circles: the circle is added.
PostCircle(circle) == Append(store, circle)

\* Backend DELETE /api/circles/<id>: the stored circle <id> is removed.
DeleteCircle(id) == SelectSeq(store, LAMBDA c : c.id # id)

\* Backend POST /api/circles/<id>/articles: the article id joins the list
\* of circle <id>, once.
AddArticle(circleId, articleId) ==
    [i \in 1..Len(store) |->
        IF store[i].id = circleId /\ \A k \in 1..Len(store[i].articles) :
                                         store[i].articles[k] # articleId
        THEN [store[i] EXCEPT !.articles = Append(@, articleId)]
        ELSE store[i]]

\* The backend handles one request of the App: it answers it or rejects
\* it, and it rejects a create of a stored id and an update, a delete, an
\* add or a remove for an id that is not stored.
RestHandle(m, ok) ==
    /\ m \in net
    /\ m.phase = "req"
    /\ \E accepted \in
           { CASE m.kind = "create" -> ok /\ GetCircle(m.circleId) = Null
               [] m.kind \in {"update", "delete", "add", "remove"}
                     -> ok /\ GetCircle(m.circleId) # Null
               [] OTHER -> ok } :
          /\ store' = CASE accepted /\ m.kind = "create" -> PostCircle(m.body)
                        [] accepted /\ m.kind = "update" -> PutCircle(m.circleId, m.body)
                        [] accepted /\ m.kind = "delete" -> DeleteCircle(m.circleId)
                        [] accepted /\ m.kind = "add" -> AddArticle(m.circleId, m.articleId)
                        [] accepted /\ m.kind = "remove"
                              -> RemoveArticle(m.circleId, m.articleId)
                        [] OTHER -> store
          /\ net' = (net \ {m}) \cup
                    { CASE ~accepted -> Rejected(m)
                        [] m.kind \in Reloads \cup {"fetchCircles"} -> Response(m, m.body, store)
                        [] m.kind = "fetchArticles" -> Response(m, m.body, ArticleList)
                        [] m.kind = "fetchRoutes" -> Response(m, m.body, RouteList)
                        [] OTHER -> Response(m, m.body, <<>>) }
    /\ UNCHANGED <<legacyVars, clock, reactVars, measured>>

Rest ==
    /\ \E m \in net, ok \in BOOLEAN : RestHandle(m, ok)
    /\ UNCHANGED userActions

\* App.tsx fetchData(): Promise.all([api.getArticles(), api.getCircles(),
\* api.getRoutes()]) is in flight.
fetchDataRequests == { Request(kind, "", 0, Null) : kind \in Fetches }

\* App.tsx render: neither 'Loading...' nor the error message replaces the
\* application.
Loaded == ~loading /\ error = NoError

\* The answer to the request of this kind that fetchData is waiting for.
Fetched(kind) == CHOOSE m \in net : m.kind = kind /\ m.phase = "resp"

\* App.tsx fetchData(): the three requests are answered; setArticles,
\* setCircles, setRoutes, setError(null), and finally setLoading(false).
fetchDataThen ==
    /\ loading
    /\ \A kind \in Fetches : \E m \in net : m.kind = kind /\ m.phase = "resp"
    /\ articles' = Fetched("fetchArticles").list
    /\ circles' = Fetched("fetchCircles").list
    /\ routes' = Fetched("fetchRoutes").list
    /\ error' = NoError
    /\ loading' = FALSE
    /\ net' = { m \in net : m.kind \notin Fetches }
    /\ UNCHANGED <<selectedCircle, selectedArticle, formValues, selectedRoute, routeData,
                   selectedCircleId, alerted>>
    /\ UNCHANGED <<legacyVars, store, clock, measured, userActions>>

\* fetchData that assigns the articles that did arrive when another request
\* of Promise.all is rejected.
fetchDataCatchKeepingArrived(m) ==
    /\ loading
    /\ m \in net
    /\ m.kind \in Fetches
    /\ m.phase = "err"
    /\ error' = "Failed to load data. Please try refreshing the page."
    /\ loading' = FALSE
    /\ net' = net \ {m}
    /\ articles' = IF \E a \in net : a.kind = "fetchArticles" /\ a.phase = "resp"
                   THEN Fetched("fetchArticles").list
                   ELSE articles
    /\ UNCHANGED <<routes, selectedRoute, routeData>>
    /\ UNCHANGED <<circleVars, selectedCircleId, alerted>>
    /\ UNCHANGED <<legacyVars, store, clock, measured>>

\* App.tsx fetchData(): Promise.all rejects with the first request that is
\* rejected; catch: setError(...), and finally setLoading(false).
fetchDataCatch(m) ==
    /\ loading
    /\ m \in net
    /\ m.kind \in Fetches
    /\ m.phase = "err"
    /\ error' = "Failed to load data. Please try refreshing the page."
    /\ loading' = FALSE
    /\ net' = net \ {m}
    /\ UNCHANGED <<articles, routes, selectedRoute, routeData>>
    /\ UNCHANGED <<circleVars, selectedCircleId, alerted>>
    /\ UNCHANGED <<legacyVars, store, clock, measured>>

DataFailed ==
    /\ \E m \in net : fetchDataCatch(m)
    /\ UNCHANGED userActions

\* An answer to a request of fetchData that arrives after Promise.all has
\* been rejected: nothing waits for it.
fetchDataSettled ==
    /\ ~loading
    /\ \E m \in net :
          /\ m.kind \in Fetches
          /\ m.phase \in {"resp", "err"}
          /\ net' = net \ {m}
    /\ UNCHANGED <<legacyVars, store, clock, reactVars, measured, userActions>>

\* CircleManager useEffect(..., [selectedCircle]): the form is reset to the
\* selected circle, or to emptyCircle.
resetForm(selected) == IF selected # Null THEN selected ELSE emptyCircle

\* setSelectedCircle(next) for null or an object that was not selected
\* before: the effect runs unless null replaces null.
setSelectedCircle(next) ==
    /\ selectedCircle' = next
    /\ formValues' = IF next = Null /\ selectedCircle = Null
                     THEN formValues
                     ELSE resetForm(next)

\* CircleManager onClick={() => onSelectCircle(circle)} and MapView
\* onCircleClick: an entry of circles is selected.  An entry equal to the
\* selected circle is the selected object itself (nothing changes) or
\* another object (the effect runs).
onSelectCircle(circle) ==
    /\ \/ setSelectedCircle(circle)
       \/ /\ circle = selectedCircle
          /\ UNCHANGED <<selectedCircle, formValues>>
    /\ UNCHANGED <<circles, selectedArticle, loadVars, selectedCircleId, alerted>>
    /\ UNCHANGED <<legacyVars, serverVars, measured>>

CircleItemClick ==
    /\ UserAction
    /\ Loaded
    /\ \E i \in 1..Len(circles) : onSelectCircle(circles[i])

\* CircleManager handleInputChange(e): name and value of the input changed.
handleInputChange(name, value) ==
    /\ formValues' =
          CASE name = "center" ->
                  ValueOf({ IF ~IsNaN(p[1]) /\ ~IsNaN(p[2])
                            THEN [formValues EXCEPT !.center = p]
                            ELSE formValues :
                            p \in { <<parseFloat(value[1]), parseFloat(value[2])>> } })
            [] name = "radius" -> [formValues EXCEPT !.radius = parseFloat(value)]
            [] OTHER -> [formValues EXCEPT ![name] = value]
    /\ UNCHANGED <<circles, selectedCircle, selectedArticle, loadVars, selectedCircleId,
                   alerted>>
    /\ UNCHANGED <<legacyVars, serverVars, measured>>

InputChange ==
    /\ UserAction
    /\ Loaded
    /\ \/ \E value \in Ids : handleInputChange("id", value)
       \/ \E value \in Names : handleInputChange("name", value)
       \/ \E value \in CenterInputs : handleInputChange("center", value)
       \/ \E value \in RadiusInputs : handleInputChange("radius", value)
       \/ \E value \in Colors : handleInputChange("color", value)

\* App.tsx handleCreateCircle(circle): await api.createCircle(circle)
handleCreateCircle(circle) ==
    /\ Cardinality(net) < MaxInflight
    /\ net' = net \cup { Request("create", circle.id, 0, circle) }

\* App.tsx handleUpdateCircle(circle): await api.updateCircle(circle.id, circle)
handleUpdateCircle(circle) ==
    /\ Cardinality(net) < MaxInflight
    /\ net' = net \cup { Request("update", circle.id, 0, circle) }

\* CircleManager handleSubmit(e), called with a submit event of the form.
handleSubmit ==
    /\ UserAction
    /\ Loaded
    /\ IF \/ formValues.id = ""
          \/ formValues.name = ""
          \/ IsNaN(formValues.radius)
          \/ IsZero(formValues.radius)
       THEN /\ alerted' = "Please fill all required fields"
            /\ UNCHANGED net
       ELSE /\ \E circle \in
                   { [id |-> formValues.id,
                      name |-> formValues.name,
                      center |-> formValues.center,
                      radius |-> formValues.radius,
                      color |-> IF formValues.color = "" THEN "#1976d2" ELSE formValues.color,
                      articles |-> formValues.articles] } :
                  IF selectedCircle # Null
                  THEN handleUpdateCircle(circle)
                  ELSE handleCreateCircle(circle)
            /\ UNCHANGED alerted
    /\ UNCHANGED <<circleVars, loadVars, selectedCircleId>>
    /\ UNCHANGED <<legacyVars, store, clock, measured>>

\* The alert of the catch block of the handler that sent a request of this kind.
FailureAlert(kind) ==
    CASE kind \in {"create", "createReload"} -> "Failed to create circle"
      [] kind \in {"update", "updateReload"} -> "Failed to update circle"
      [] kind \in {"delete", "deleteReload"} -> "Failed to delete circle"
      [] kind \in {"add", "addReload"} -> "Failed to add article to circle"
      [] OTHER -> "Failed to remove article from circle"

\* The circle handlers of App after their first await: api.getCircles() is
\* called, or the catch block alerts.
handlerAwaited(m) ==
    /\ m \in net
    /\ m.kind \in {"create", "update", "delete", "add", "remove"}
    /\ m.phase \in {"resp", "err"}
    /\ IF m.phase = "resp"
       THEN /\ net' = (net \ {m}) \cup
                      { Request(CASE m.kind = "create" -> "createReload"
                                  [] m.kind = "update" -> "updateReload"
                                  [] m.kind = "delete" -> "deleteReload"
                                  [] m.kind = "add" -> "addReload"
                                  [] OTHER -> "removeReload",
                                m.circleId, m.articleId, m.body) }
            /\ UNCHANGED alerted
       ELSE /\ net' = net \ {m}
            /\ alerted' = FailureAlert(m.kind)
    /\ UNCHANGED <<circleVars, loadVars, selectedCircleId>>
    /\ UNCHANGED <<legacyVars, store, clock, measured>>

HandlerAwaited ==
    /\ \E m \in net : handlerAwaited(m)
    /\ UNCHANGED userActions

\* handleUpdateCircle that selects the circle it sent also when the reload
\* is rejected.
handleUpdateCircleThenOptimistic(m) ==
    /\ m \in net
    /\ m.kind \in {"createReload", "updateReload"}
    /\ m.phase \in {"resp", "err"}
    /\ net' = net \ {m}
    /\ IF m.phase = "resp"
       THEN /\ circles' = m.list
            /\ setSelectedCircle(m.body)
            /\ UNCHANGED alerted
       ELSE /\ setSelectedCircle(m.body)
            /\ UNCHANGED circles
            /\ alerted' = FailureAlert(m.kind)
    /\ UNCHANGED <<selectedArticle, loadVars, selectedCircleId>>
    /\ UNCHANGED <<legacyVars, store, clock, measured>>

\* handleCreateCircle, handleUpdateCircle after api.getCircles():
\* setCircles(updatedCircles); setSelectedCircle(circle), or the catch block.
handleUpdateCircleThen(m) ==
    /\ m \in net
    /\ m.kind \in {"createReload", "updateReload"}
    /\ m.phase \in {"resp", "err"}
    /\ net' = net \ {m}
    /\ IF m.phase = "resp"
       THEN /\ circles' = m.list
            /\ setSelectedCircle(m.body)
            /\ UNCHANGED alerted
       ELSE /\ UNCHANGED <<circles, selectedCircle, formValues>>
            /\ alerted' = FailureAlert(m.kind)
    /\ UNCHANGED <<selectedArticle, loadVars, selectedCircleId>>
    /\ UNCHANGED <<legacyVars, store, clock, measured>>

CircleUpdated ==
    /\ \E m \in net : handleUpdateCircleThen(m)
    /\ UNCHANGED userActions

\* CircleManager handleDeleteCircle() with the answer to window.confirm,
\* then App.tsx handleDeleteCircle(circleId): await api.deleteCircle(circleId).
\* The button is rendered when a circle is selected.
handleDeleteCircleClick(confirmed) ==
    /\ selectedCircle # Null
    /\ IF selectedCircle # Null /\ confirmed
       THEN /\ Cardinality(net) < MaxInflight
            /\ net' = net \cup { Request("delete", selectedCircle.id, 0, Null) }
       ELSE UNCHANGED net
    /\ UNCHANGED <<legacyVars, store, clock, reactVars, measured>>

handleDeleteCircle ==
    /\ UserAction
    /\ Loaded
    /\ \E confirmed \in BOOLEAN : handleDeleteCircleClick(confirmed)

\* App.tsx handleDeleteCircle after api.getCircles():
\* setCircles(updatedCircles); setSelectedCircle(null), or the catch block.
handleDeleteCircleThen(m) ==
    /\ m \in net
    /\ m.kind = "deleteReload"
    /\ m.phase \in {"resp", "err"}
    /\ net' = net \ {m}
    /\ IF m.phase = "resp"
       THEN /\ circles' = m.list
            /\ setSelectedCircle(Null)
            /\ UNCHANGED alerted
       ELSE /\ UNCHANGED <<circles, selectedCircle, formValues>>
            /\ alerted' = FailureAlert(m.kind)
    /\ UNCHANGED <<selectedArticle, loadVars, selectedCircleId>>
    /\ UNCHANGED <<legacyVars, store, clock, measured>>

CircleDeleted ==
    /\ \E m \in net : handleDeleteCircleThen(m)
    /\ UNCHANGED userActions

\* CircleManager handleNewCircle(): onSelectCircle(null); setFormValues({...emptyCircle})
newCircleButton ==
    /\ UserAction
    /\ Loaded
    /\ selectedCircle' = Null
    /\ formValues' = emptyCircle
    /\ UNCHANGED <<circles, selectedArticle, loadVars, selectedCircleId, alerted>>
    /\ UNCHANGED <<legacyVars, serverVars, measured>>

\* The points of the map the user clicks.
ClickPoints == {Origin, East529}

\* handleMapClick that moves the entry of the circles list as well.
handleMapClickMovingEntry(lat, lng) ==
    /\ IF selectedCircle # Null
       THEN /\ setSelectedCircle([selectedCircle EXCEPT !.center = <<lat, lng>>])
            /\ circles' = [i \in 1..Len(circles) |->
                              IF circles[i].id = selectedCircle.id
                              THEN [circles[i] EXCEPT !.center = <<lat, lng>>]
                              ELSE circles[i]]
       ELSE UNCHANGED <<selectedCircle, formValues, circles>>
    /\ UNCHANGED <<selectedArticle, loadVars, selectedCircleId, alerted>>
    /\ UNCHANGED <<legacyVars, serverVars, measured>>

\* App.tsx handleMapClick(lat, lng)
handleMapClick(lat, lng) ==
    /\ IF selectedCircle # Null
       THEN setSelectedCircle([selectedCircle EXCEPT !.center = <<lat, lng>>])
       ELSE UNCHANGED <<selectedCircle, formValues>>
    /\ UNCHANGED <<circles, selectedArticle, loadVars, selectedCircleId, alerted>>
    /\ UNCHANGED <<legacyVars, serverVars, measured>>

MapClick ==
    /\ UserAction
    /\ Loaded
    /\ \E p \in ClickPoints : handleMapClick(p[1], p[2])

\* MapView: the click on the marker of an article.
MarkerClick ==
    /\ UserAction
    /\ Loaded
    /\ \E i \in 1..Len(articles) : onArticleClick(articles[i])

\* ArticleDetail: the close button.
DetailClose ==
    /\ UserAction
    /\ Loaded
    /\ onClose

\* ArticleDetail <select onChange={(e) => setSelectedCircleId(e.target.value)}>
\* with the options '' and the ids of circles.
setSelectedCircleId(value) ==
    /\ selectedArticle # Null
    /\ value # selectedCircleId
    /\ selectedCircleId' = value
    /\ UNCHANGED <<circleVars, loadVars, alerted>>
    /\ UNCHANGED <<legacyVars, serverVars, measured>>

OptionChange ==
    /\ UserAction
    /\ Loaded
    /\ \E value \in {""} \cup { circles[i].id : i \in 1..Len(circles) } :
          setSelectedCircleId(value)

\* What the handlers of this render read after an await: the selectedCircle
\* and selectedArticle of the render in which they were called.
Closure == [selectedCircle |-> selectedCircle, selectedArticle |-> selectedArticle]

\* ArticleDetail handleAddToCircle(): the button is disabled while
\* selectedCircleId is ''; onAddToCircle(selectedCircleId, article.pageid) is
\* App.tsx handleAddArticleToCircle: await api.addArticleToCircle(circleId, articleId)
handleAddToCircle ==
    /\ UserAction
    /\ Loaded
    /\ selectedArticle # Null
    /\ selectedCircleId # ""
    /\ Cardinality(net) < MaxInflight
    /\ net' = net \cup { Request("add", selectedCircleId, selectedArticle.pageid, Closure) }
    /\ selectedCircleId' = ""
    /\ UNCHANGED <<circleVars, loadVars, alerted>>
    /\ UNCHANGED <<legacyVars, store, clock, measured>>

\* CircleManager: the Remove button of an article of the selected circle
\* (getCircleArticles()); onRemoveArticle(selectedCircle.id, article.pageid) is
\* App.tsx handleRemoveArticleFromCircle: await api.removeArticleFromCircle(...)
handleRemoveArticleFromCircle ==
    /\ UserAction
    /\ Loaded
    /\ selectedCircle # Null
    /\ Cardinality(net) < MaxInflight
    /\ \E i \in 1..Len(articles) :
          /\ \E k \in 1..Len(selectedCircle.articles) :
                selectedCircle.articles[k] = articles[i].pageid
          /\ net' = net \cup
                    { Request("remove", selectedCircle.id, articles[i].pageid, Closure) }
    /\ UNCHANGED <<legacyVars, store, clock, reactVars, measured>>

\* updatedCircles.find(c => c.id === circleId) || null
findCircle(updatedCircles, circleId) ==
    IF \E i \in 1..Len(updatedCircles) : updatedCircles[i].id = circleId
    THEN updatedCircles[CHOOSE i \in 1..Len(updatedCircles) :
                            /\ updatedCircles[i].id = circleId
                            /\ \A j \in 1..(i - 1) : updatedCircles[j].id # circleId]
    ELSE Null

\* handleAddArticleToCircle, handleRemoveArticleFromCircle after
\* api.getCircles(): setCircles(updatedCircles); the selected circle is
\* replaced if the selectedCircle the handler holds has the id circleId; the
\* add alerts.  Or the catch block.
handleArticleThen(m) ==
    /\ m \in net
    /\ m.kind \in {"addReload", "removeReload"}
    /\ m.phase \in {"resp", "err"}
    /\ net' = net \ {m}
    /\ IF m.phase = "resp"
       THEN /\ circles' = m.list
            /\ IF m.body.selectedCircle # Null /\ m.body.selectedCircle.id = m.circleId
               THEN setSelectedCircle(findCircle(m.list, m.circleId))
               ELSE UNCHANGED <<selectedCircle, formValues>>
            /\ alerted' = IF m.kind = "addReload"
                          THEN "Article \"" \o m.body.selectedArticle.title
                                   \o "\" added to circle"
                          ELSE alerted
       ELSE /\ UNCHANGED <<circles, selectedCircle, formValues>>
            /\ alerted' = FailureAlert(m.kind)
    /\ UNCHANGED <<selectedArticle, loadVars, selectedCircleId>>
    /\ UNCHANGED <<legacyVars, store, clock, measured>>

ArticleHandled ==
    /\ \E m \in net : handleArticleThen(m)
    /\ UNCHANGED userActions

\* RouteSelector <select onChange>: onSelectRoute(null) for '', else
\* onSelectRoute(routes.find(r => r.id === routeId) || null); then App.tsx
\* useEffect(..., [selectedRoute]): setRouteData(null), or fetchRouteData():
\* await api.getRoute(selectedRoute.id)
onSelectRoute(routeId) ==
    /\ routeId # (IF selectedRoute = Null THEN "" ELSE selectedRoute.id)
    /\ IF routeId = ""
       THEN /\ selectedRoute' = Null
            /\ routeData' = Null
            /\ UNCHANGED net
       ELSE /\ selectedRoute' = CHOOSE r \in Range(routes) : r.id = routeId
            /\ Cardinality(net) < MaxInflight
            /\ net' = net \cup { Request("getRoute", routeId, 0, Null) }
            /\ UNCHANGED routeData
    /\ UNCHANGED <<articles, routes, loading, error>>
    /\ UNCHANGED <<circleVars, selectedCircleId, alerted>>
    /\ UNCHANGED <<legacyVars, store, clock, measured>>

RouteChange ==
    /\ UserAction
    /\ Loaded
    /\ \E routeId \in {""} \cup { r.id : r \in Range(routes) } : onSelectRoute(routeId)

\* App.tsx fetchRouteData() after api.getRoute(...): setRouteData(data), or
\* catch: setError(`Failed to load route ${selectedRoute.id}`)
fetchRouteDataThen(m) ==
    /\ m \in net
    /\ m.kind = "getRoute"
    /\ m.phase \in {"resp", "err"}
    /\ net' = net \ {m}
    /\ IF m.phase = "resp"
       THEN /\ routeData' = [route |-> m.circleId]
            /\ UNCHANGED error
       ELSE /\ error' = "Failed to load route " \o m.circleId
            /\ UNCHANGED routeData
    /\ UNCHANGED <<articles, routes, selectedRoute, loading>>
    /\ UNCHANGED <<circleVars, selectedCircleId, alerted>>
    /\ UNCHANGED <<legacyVars, store, clock, measured>>

RouteFetched ==
    /\ \E m \in net : fetchRouteDataThen(m)
    /\ UNCHANGED userActions

\* The circles stored when the application is opened.
AppStores ==
    { <<CHOOSE c \in CircleUniverse : c.id = "a",
        CHOOSE c \in CircleUniverse : c.id = "b">>,
      <<CHOOSE c \in CircleUniverse : c.id = "c">> }

\* The application as mounted: fetchData() has sent its requests.
InitApp ==
    /\ LegacyStart
    /\ ReactStart
    /\ store \in AppStores
    /\ net = fetchDataRequests
    /\ clock = 0
    /\ measured = Null
    /\ userActions = 0

NextApp ==
    \/ Rest
    \/ fetchDataThen
    \/ DataFailed
    \/ fetchDataSettled
    \/ CircleItemClick
    \/ InputChange
    \/ handleSubmit
    \/ HandlerAwaited
    \/ CircleUpdated
    \/ handleDeleteCircle
    \/ CircleDeleted
    \/ newCircleButton
    \/ MapClick
    \/ MarkerClick
    \/ DetailClose
    \/ OptionChange
    \/ handleAddToCircle
    \/ handleRemoveArticleFromCircle
    \/ ArticleHandled
    \/ RouteChange
    \/ RouteFetched

SpecApp == InitApp /\ [][NextApp]_vars

\* The application with its scheduling: a response that has arrived is
\* handled, the backend answers, and the user goes on using what is shown.
SpecAppFair == SpecApp /\ WF_vars(NextApp)

-----------------------------------------------------------------------------
\* Deleting circles: the editor page and the React application, both open on
\* the same backend with the circles loaded.

\* The backend handles a request of the editor page.
BackendOfEditor ==
    /\ \E m \in net :
          /\ m.kind \in {"circles", "load", "deleteCircle"}
          /\ BackendHandle(m)
    /\ UNCHANGED userActions

\* The backend handles a request of the React application.
RestOfApp ==
    /\ \E m \in net, ok \in BOOLEAN :
          /\ m.kind \in {"delete", "deleteReload"}
          /\ RestHandle(m, ok)
    /\ UNCHANGED userActions

InitDelete ==
    /\ store \in AppStores
    /\ allCircles = store
    /\ currentCircleId = NoId
    /\ circleData = Null
    /\ currentArticleForAssignment = Null
    /\ currentArticleLocation = Null
    /\ nameInput = ""
    /\ nearbyResult = <<>>
    /\ circles = store
    /\ selectedCircle = Null
    /\ selectedArticle = Null
    /\ formValues = emptyCircle
    /\ articles = ArticleList
    /\ routes = RouteList
    /\ selectedRoute = Null
    /\ routeData = Null
    /\ loading = FALSE
    /\ error = NoError
    /\ selectedCircleId = ""
    /\ alerted = ""
    /\ net = {}
    /\ clock = 0
    /\ measured = Null
    /\ userActions = 0

NextDelete ==
    \/ BackendOfEditor
    \/ RestOfApp
    \/ CirclesLoaded
    \/ CircleClick
    \/ CircleDataLoaded
    \/ DeleteClick
    \/ LegacyCircleDeleted
    \/ CircleItemClick
    \/ handleDeleteCircle
    \/ HandlerAwaited
    \/ CircleDeleted

SpecDelete == InitDelete /\ [][NextDelete]_vars

-----------------------------------------------------------------------------
\* Claims about the React application.

\* C7: submitting the edit form for a selected circle never changes the
\* circle's identity: the update request that the submission sends targets
\* the id of the selected circle, and the circle it sends to be stored and
\* re-selected has that id.
C7_IdentityUnchanged ==
    [][\A m \in net' \ net :
          (m.kind = "update" /\ m.phase = "req")
             => /\ m.circleId = selectedCircle.id
                /\ m.body.id = selectedCircle.id]_vars

\* The requests of the circle handlers: the mutating calls and the reloads.
Mutations == {"create", "update", "delete", "add", "remove"}

\* C15: when the request of a circle handler fails (the mutating call or
\* the reload that follows it is rejected), the handler reports the failure
\* with its alert and leaves the circles list and selectedCircle as they
\* are; the steps of the handler before the failure (sending the mutating
\* call, sending the reload) leave them as they are, too.
C15_FailureLeavesState ==
    [][/\ \A m \in net \ net' :
             (m.kind \in Mutations \cup Reloads /\ m.phase = "err")
                 => /\ alerted' = FailureAlert(m.kind)
                    /\ circles' = circles
                    /\ selectedCircle' = selectedCircle
       /\ \A m \in net \ net' :
             (m.kind \in Mutations /\ m.phase = "resp")
                 => (circles' = circles /\ selectedCircle' = selectedCircle)
       /\ \A m \in net' \ net :
             (m.kind \in Mutations /\ m.phase = "req")
                 => (circles' = circles /\ selectedCircle' = selectedCircle)]_vars

\* The update of an edited circle was stored and the reload was rejected:
\* the failure is reported, and the list still shows the circle as it was.
C15_Witness ==
    /\ alerted = "Failed to update circle"
    /\ net = {}
    /\ selectedCircle # Null
    /\ selectedCircle \in Range(circles)
    /\ \E i \in 1..Len(store) : store[i].id = selectedCircle.id /\ store[i] # selectedCircle

\* The error fetchData sets.
LoadError == "Failed to load data. Please try refreshing the page."

\* C17 as stated: in every state where loading is false, either error is
\* null and articles, circles and routes hold the data their fetches
\* returned, or error is set and none of the three collections has been
\* assigned.
C17_AllOrNothingAlways ==
    ~loading =>
        \/ /\ error = NoError
           /\ articles = ArticleList
           /\ routes = RouteList
        \/ /\ error # NoError
           /\ articles = <<>>
           /\ circles = <<>>
           /\ routes = <<>>

\* C17, amended: the initial load is all-or-nothing.  The step of fetchData
\* that sets loading to false either has assigned articles, circles and
\* routes the data of the three fetches with error null, or has set error
\* and assigned none of them; and while loading is false the collections
\* are all unassigned if error is the error of fetchData, and articles and
\* routes hold the fetched data otherwise (error is then null or the error
\* of a failed route fetch).
C17_LoadAllOrNothing ==
    /\ [](~loading =>
            IF error = LoadError
            THEN articles = <<>> /\ circles = <<>> /\ routes = <<>>
            ELSE articles = ArticleList /\ routes = RouteList)
    /\ [][(loading /\ ~loading') =>
             \/ /\ error' = NoError
                /\ articles' = ArticleList
                /\ circles' = store
                /\ routes' = RouteList
             \/ /\ error' = LoadError
                /\ articles' = <<>>
                /\ circles' = <<>>
                /\ routes' = <<>>]_vars

\* One request of fetchData was rejected after another was answered: the
\* answer is there, and nothing was assigned.
C17_Witness ==
    /\ ~loading
    /\ error = LoadError
    /\ \E m \in net : m.kind = "fetchArticles" /\ m.phase = "resp"
    /\ articles = <<>>

C19_MapClickMovesCenterOnly ==
    [][\A p \in ClickPoints :
          handleMapClick(p[1], p[2]) =>
              /\ circles' = circles
              /\ articles' = articles
              /\ routes' = routes
              /\ store' = store
              /\ net' = net
              /\ IF selectedCircle # Null
                 THEN selectedCircle' = [id |-> selectedCircle.id,
                                         name |-> selectedCircle.name,
                                         center |-> p,
                                         radius |-> selectedCircle.radius,
                                         color |-> selectedCircle.color,
                                         articles |-> selectedCircle.articles]
                 ELSE UNCHANGED <<legacyVars, serverVars, reactVars, measured>>]_vars

\* The selected circle after a map click: it is the entry of the circles
\* list but for its center, which is the point clicked.
C19_Witness ==
    /\ selectedCircle # Null
    /\ selectedCircle.center \in ClickPoints
    /\ \E i \in 1..Len(circles) :
          /\ circles[i].center # selectedCircle.center
          /\ circles[i] = [selectedCircle EXCEPT !.center = circles[i].center]
    /\ circles = store

\* C20: when handleAddArticleToCircle or handleRemoveArticleFromCircle has
\* succeeded for circle id X (the reloaded list has arrived): if the circle
\* selected at that moment has id X, selectedCircle becomes the entry for X
\* of the reloaded list; if another circle or none is selected at that
\* moment, selectedCircle is left unchanged, also when the selection changed
\* while the request was in flight.
C20_SelectionFollowsCurrent ==
    [][\A m \in net \ net' :
          (/\ m.kind \in {"addReload", "removeReload"}
           /\ m.phase = "resp"
           /\ handleArticleThen(m))
              => IF selectedCircle # Null /\ selectedCircle.id = m.circleId
                 THEN selectedCircle' = findCircle(m.list, m.circleId)
                 ELSE selectedCircle' = selectedCircle]_vars

\* C14: a circle's name defaults to a placeholder when absent.  saveCircle
\* never persists an empty name: the circle it posts has a name that is not
\* empty, 'Unnamed Circle' when the name input is empty or only whitespace,
\* and the backend stores that name; and the nearby-circles list shows
\* 'Unnamed Circle' for a circle whose name is empty or missing.
C14_NameDefaultsToPlaceholder ==
    /\ [](\A i \in 1..Len(nearbyResult) :
             ("name" \notin DOMAIN nearbyResult[i] \/ nearbyResult[i].name = "")
                 => nearbyCirclesList[i] = "Unnamed Circle")
    /\ [][/\ saveCircle
                => \E m \in net' :
                      /\ net' = net \cup {m}
                      /\ m.kind = "save" /\ m.phase = "req"
                      /\ m.body.name \notin {"", " "}
                      /\ nameInput \in {"", " "} => m.body.name = "Unnamed Circle"
          /\ \A m \in net :
                (m.kind = "save" /\ BackendHandle(m))
                    => \E i \in 1..Len(store') :
                          /\ store'[i].id = m.circleId
                          /\ store'[i].name = m.body.name
                          /\ store'[i].name \notin {"", " "}]_vars

\* saveCircle has been answered for a circle that had no name and an empty
\* name input: the backend holds it as 'Unnamed Circle', while the list of
\* nearby circles shows the circle loaded without a name under that label.
C14_Witness ==
    /\ \E m \in net : m.kind = "save" /\ m.phase = "resp"
    /\ nameInput = ""
    /\ \E i \in 1..Len(store) :
          store[i].id = currentCircleId /\ store[i].name = "Unnamed Circle"
    /\ \E i \in 1..Len(nearbyResult) :
          /\ nearbyResult[i].id = currentCircleId
          /\ nameOrEmpty(nearbyResult[i]) = ""
          /\ nearbyCirclesList[i] = "Unnamed Circle"

\* C16: a circle is destroyed only by an explicit confirmed delete.  A delete
\* request is sent only by CircleManager.handleDeleteCircle or the editor's
\* deleteCircle, for the circle currently selected and with the confirmation
\* dialog accepted; with no circle selected or the confirmation declined
\* either handler sends no request and changes no state.
C16_DeleteOnlyConfirmed ==
    [][/\ \A m \in net' \ net :
             (m.kind \in {"delete", "deleteCircle"} /\ m.phase = "req" /\ ~m.orphan)
                 => \/ /\ m.kind = "delete"
                       /\ selectedCircle # Null
                       /\ m.circleId = selectedCircle.id
                       /\ handleDeleteCircleClick(TRUE)
                    \/ /\ m.kind = "deleteCircle"
                       /\ currentCircleId # NoId
                       /\ m.circleId = currentCircleId
                       /\ deleteCircle(TRUE)
       /\ \A confirmed \in BOOLEAN :
             /\ (handleDeleteCircleClick(confirmed) /\ ~(selectedCircle # Null /\ confirmed))
                   => UNCHANGED <<legacyVars, serverVars, reactVars, measured>>
             /\ (deleteCircle(confirmed) /\ ~(currentCircleId # NoId /\ confirmed))
                   => UNCHANGED <<legacyVars, serverVars, reactVars, measured>>]_vars

\* The editor's delete of its current circle has been confirmed and is in
\* flight, while the React application has a circle selected and has sent no
\* delete request.
C16_Witness ==
    /\ currentCircleId # NoId
    /\ \E m \in net :
          m.kind = "deleteCircle" /\ m.phase = "req" /\ m.circleId = currentCircleId
    /\ selectedCircle # Null
    /\ \A m \in net : m.kind # "delete"
    /\ \E i \in 1..Len(store) : store[i].id = currentCircleId

\* C21: route data follows the selected route.  Whenever the application is
\* shown and no route fetch is in flight, routeData is null if no route is
\* selected, and otherwise is the data fetched for the route now selected: a
\* late response for a route selected earlier never overwrites it.
C21_RouteDataFollowsSelection ==
    (Loaded /\ \A m \in net : m.kind # "getRoute")
        => IF selectedRoute = Null
           THEN routeData = Null
           ELSE routeData = [route |-> selectedRoute.id]

\* C22: in the editor, circleData always belongs to the current circle: in
\* every state where currentCircleId and circleData are both set,
\* circleData.id is currentCircleId, so that saveCircle never posts one
\* circle's center, radius, color and articles under another circle's id.
C22_CircleDataOfCurrentCircle ==
    (currentCircleId # NoId /\ circleData # Null) => circleData.id = currentCircleId

\* A request in flight that will still write circle circleId: a write the
\* backend has not handled, or an assignment that has not yet posted.
WritePending(msgs, circleId) ==
    \E x \in msgs :
        /\ x.circleId = circleId
        /\ \/ x.kind \in Writes /\ x.phase = "req"
           \/ x.kind = "assignGet"

\* C23: no assignment is lost.  When assignArticleToCircle reports success
\* for article A and circle C, no remove is ever issued, and no request that
\* writes C is in flight any more, then A is in the stored articles of C,
\* also when another assignArticleToCircle or a saveCircle on C overlapped.
C23_NoAssignmentLost ==
    [][\A m \in net :
          (assignArticleToCircleSaved(m) /\ ~WritePending(net', m.circleId))
              => /\ GetCircle(m.circleId) # Null
                 /\ \E k \in 1..Len(GetCircle(m.circleId).articles) :
                       GetCircle(m.circleId).articles[k] = m.articleId]_vars

\* C24: the displayed circle list converges to the backend.  Once every
\* request started by the circle handlers has completed, none of them with a
\* failure (no handler has alerted), the circles state is the collection the
\* backend stores, whatever the order in which the reload responses arrived.
C24_CirclesConverge ==
    (/\ Loaded
     /\ alerted = ""
     /\ \A m \in net : m.kind \notin Mutations \cup Reloads)
        => circles = store

\* C25: completing a delete clears the selection only of the deleted circle.
\* When handleDeleteCircle(X) has succeeded (its reload has arrived),
\* selectedCircle becomes null if the circle selected at that moment is X,
\* and a different circle selected while the delete was in flight stays
\* selected.
C25_DeleteClearsOnlyDeleted ==
    [][\A m \in net \ net' :
          (/\ m.kind = "deleteReload"
           /\ m.phase = "resp"
           /\ handleDeleteCircleThen(m))
              => IF selectedCircle # Null /\ selectedCircle.id = m.circleId
                 THEN selectedCircle' = Null
                 ELSE selectedCircle' = selectedCircle]_vars

\* C26: a failed route load is recoverable.  After the initial load has
\* succeeded, when a route fetch has failed and set error while the user
\* still goes on, error is eventually null again (by selecting another
\* route, deselecting the route or a route fetch that succeeds): the
\* application is never stuck on the error screen forever.
C26_RouteFailureRecoverable ==
    [](( /\ ~loading
         /\ error \notin {NoError, LoadError}
         /\ userActions < MaxUserActions )
          => <>(error = NoError))

=============================================================================
